---- MODULE Spec2Model ----
(***************************************************************************)
(* gophKeeper server: the data-item engine (Service) over the PostgreSQL   *)
(* repository (Repo) and the MinIO repository (S3Repo), and the gRPC       *)
(* handlers (St) that call it through the use case layer.                  *)
(*                                                                         *)
(* Strings that the code converts (item ids, object names) are sequences   *)
(* of one-character strings, so that strconv.Atoi and the %d verb are      *)
(* computed and not assumed.  An optional value (a Go pointer field) is    *)
(* the empty sequence when nil and a one-element sequence when set.        *)
(***************************************************************************)
EXTENDS Integers, Sequences, FiniteSets, TLC

VARIABLES rows, objects, creator, users, auth, procs, now, crashed, last

vars == <<rows, objects, creator, users, auth, procs, now, crashed, last>>

(***************************************************************************)
(* Bounds of the model.                                                    *)
(***************************************************************************)
\* number of operations (each takes one tick of the database clock)
MaxOps == 3

\* item ids a caller may use: a canonical number and a non-numeric id
ItemIDs == { <<"1">>, <<"a">> }

\* ids of the registered users (rows of the users table)
Users == { "1", "2" }

\* payload bytes
Payloads == { "d1", "d2" }

\* free-text annotations
Metas == { "m" }

(***************************************************************************)
(* model.go: the data types                                               *)
(***************************************************************************)
CredentialsDataType == "login_password"
TextDataType == "text"
BinaryDataType == "binary"
BankCardDataType == "bank_card"

\* the data_type enumeration of the data_items table
DataTypes == { CredentialsDataType, TextDataType, BinaryDataType, BankCardDataType }

\* optional values
None == << >>
Some(v) == << v >>
IsSet(o) == o # << >>
Val(o) == o[1]

\* SQL NULL in a nullable column
DBNull == "<NULL>"

\* the nil error
NoErr == ""

EmptyID == << >>
EmptyURL == << >>

\* GetPars.IsValid: at least one field of the filter is populated
IsValid(pars) ==
    \/ pars.ID # EmptyID
    \/ pars.UserID # ""
    \/ pars.Type # ""
    \/ pars.Meta # ""
    \/ pars.URL # EmptyURL

GetPars(id, userID, type, meta, url) ==
    [ID |-> id, UserID |-> userID, Type |-> type, Meta |-> meta, URL |-> url]

\* a filter with only the id set, as Service and Usecase.EditData build it
ParsByID(id) == GetPars(id, "", "", "", EmptyURL)

\* model.Edit; CreatedAt is never read by the repository
Edit(id, userID, type, data, meta, url, updatedAt) ==
    [ID |-> id, UserID |-> userID, Type |-> type, Data |-> data,
     Meta |-> meta, URL |-> url, UpdatedAt |-> updatedAt]

(***************************************************************************)
(* strconv.Atoi and fmt.Sprintf("%d", n) on character sequences            *)
(***************************************************************************)
DigitChars == << "0", "1", "2", "3", "4", "5", "6", "7", "8", "9" >>

IsDigit(c) == \E i \in 1..10 : DigitChars[i] = c

DigitVal(c) == (CHOOSE i \in 1..10 : DigitChars[i] = c) - 1

RECURSIVE DigitsVal(_)
DigitsVal(s) ==
    IF s = << >> THEN 0
    ELSE 10 * DigitsVal(SubSeq(s, 1, Len(s) - 1)) + DigitVal(s[Len(s)])

AllDigits(s) == s # << >> /\ \A i \in 1..Len(s) : IsDigit(s[i])

\* strconv.Atoi with its error dropped (id, _ := strconv.Atoi(pars.ID)):
\* an optional sign and decimal digits; 0 on a syntax error
Atoi(s) ==
    IF s = << >> THEN 0
    ELSE IF s[1] = "-" THEN (IF AllDigits(Tail(s)) THEN 0 - DigitsVal(Tail(s)) ELSE 0)
    ELSE IF s[1] = "+" THEN (IF AllDigits(Tail(s)) THEN DigitsVal(Tail(s)) ELSE 0)
    ELSE IF AllDigits(s) THEN DigitsVal(s)
    ELSE 0

RECURSIVE FmtNat(_)
FmtNat(n) ==
    IF n < 10 THEN << DigitChars[n + 1] >>
    ELSE FmtNat(n \div 10) \o << DigitChars[(n % 10) + 1] >>

\* fmt.Sprintf("%d", n)
FmtD(n) == IF n < 0 THEN << "-" >> \o FmtNat(0 - n) ELSE FmtNat(n)

(***************************************************************************)
(* s3/repo.go: object names.  An object name is written without its fixed  *)
(* "uploads/" prefix (filepath.Join("uploads", x) for x without separators)*)
(***************************************************************************)
\* GetFile: filepath.Join("uploads", fmt.Sprintf("%d", id)), id from Atoi
GetFileKey(id) == FmtD(Atoi(id))

\* UploadFile(ctx, id int, data): filepath.Join("uploads", fmt.Sprintf("%d", id))
UploadFileKey(n) == FmtD(n)

\* Service hands UploadFile the item's string id where the repository takes
\* an integer; the integer of an id is the one the repository itself derives
\* from the string in GetFile
ItemNumber(id) == Atoi(id)

\* DeleteFile: filepath.Join("uploads", pars.ID)
DeleteFileKey(id) == id

\* the locator UploadFile returns: "http://<host>/<bucket>/uploads/<name>"
ObjectURL(key) == << "http://host/bucket/uploads/" >> \o key

HasObject(objs, key) == key \in DOMAIN objs

PutObject(objs, key, data) ==
    [k \in (DOMAIN objs) \cup {key} |-> IF k = key THEN data ELSE objs[k]]

RemoveObject(objs, key) ==
    [k \in (DOMAIN objs) \ {key} |-> objs[k]]

(***************************************************************************)
(* pg/repo.go: the data_items table.  The table is a set of rows; its      *)
(* primary key is the id.  F is the set of backend calls that fail during  *)
(* the operation (a lost connection, a refused request).                   *)
(***************************************************************************)
ErrInvalidInput == "invalid_input"
ErrRecordNotFound == "record not found"
ErrDB == "pg error"
ErrUnique == "pg unique violation"
ErrScan == "pg cannot scan NULL"
ErrNoSet == "update statements must have at least one Set clause"
ErrS3 == "minio error"

NoObj == [id |-> EmptyID]

\* one entry of the log of backend calls an operation made
Call(name, err) == [call |-> name, ok |-> (err = NoErr)]

\* the WHERE clause Repo.Get builds: id, user_id and type, each when given
GetMatches(r, pars) ==
    /\ (Len(pars.ID) # 0 => r.id = pars.ID)
    /\ (pars.UserID # "" => r.user_id = pars.UserID)
    /\ (pars.Type # "" => r.type = pars.Type)

\* Repo.Get: the outcomes [obj, found, err, calls]; LIMIT 1 returns any
\* matching row; Scan reads the columns into string fields, which a NULL
\* refuses
RepoGet(tbl, pars, F) ==
    IF ~IsValid(pars)
    THEN { [obj |-> NoObj, found |-> FALSE, err |-> ErrInvalidInput, calls |-> << >>] }
    ELSE IF "pg.Get" \in F \/ pars.Type \notin DataTypes \cup {""}
    THEN { [obj |-> NoObj, found |-> FALSE, err |-> ErrDB,
            calls |-> << Call("pg.Get", ErrDB) >>] }
    ELSE LET M == { r \in tbl : GetMatches(r, pars) } IN
         IF M = {}
         THEN { [obj |-> NoObj, found |-> FALSE, err |-> NoErr,
                 calls |-> << Call("pg.Get", NoErr) >>] }
         ELSE { IF r.user_id = DBNull \/ r.meta = DBNull
                THEN [obj |-> NoObj, found |-> FALSE, err |-> ErrScan,
                      calls |-> << Call("pg.Get", ErrScan) >>]
                ELSE [obj |-> r, found |-> TRUE, err |-> NoErr,
                      calls |-> << Call("pg.Get", NoErr) >>] : r \in M }

\* the value an optional field inserts: NULL when the pointer is nil
ColumnOf(o) == IF IsSet(o) THEN Val(o) ELSE DBNull

\* an INSERT into a table without the primary key
InsertErrNoKey(tbl, obj, F) ==
    IF "pg.Create" \in F THEN ErrDB
    ELSE IF ~IsSet(obj.Type) \/ ~IsSet(obj.Data) THEN ErrDB
    ELSE IF Val(obj.Type) \notin DataTypes THEN ErrDB
    ELSE NoErr

\* what INSERT answers: NOT NULL columns, the enumeration, the primary key
InsertErr(tbl, obj, F) ==
    IF "pg.Create" \in F THEN ErrDB
    ELSE IF ~IsSet(obj.Type) \/ ~IsSet(obj.Data) THEN ErrDB
    ELSE IF Val(obj.Type) \notin DataTypes THEN ErrDB
    ELSE IF \E r \in tbl : r.id = obj.ID THEN ErrUnique
    ELSE NoErr

\* Repo.Create: INSERT (id, user_id, type, data, meta); url, created_at and
\* updated_at take their column defaults.  [rows, err, calls]
RepoCreate(tbl, obj, F, t) ==
    IF InsertErr(tbl, obj, F) # NoErr
    THEN [rows |-> tbl, err |-> InsertErr(tbl, obj, F),
          calls |-> << Call("pg.Create", InsertErr(tbl, obj, F)) >>]
    ELSE [rows |-> tbl \cup { [id |-> obj.ID, user_id |-> ColumnOf(obj.UserID),
                               type |-> Val(obj.Type), data |-> Val(obj.Data),
                               meta |-> ColumnOf(obj.Meta), url |-> EmptyURL,
                               created_at |-> t, updated_at |-> t] },
          err |-> NoErr, calls |-> << Call("pg.Create", NoErr) >>]

\* the WHERE clause Repo.Update builds: id and user_id, each when given
UpdateMatches(r, pars) ==
    /\ (Len(pars.ID) > 0 => r.id = pars.ID)
    /\ (Len(pars.UserID) > 0 => r.user_id = pars.UserID)

\* the SET clauses Repo.Update builds, applied to one row
ApplyEdit(r, obj) ==
    [id |-> r.id,
     user_id |-> IF IsSet(obj.UserID) THEN Val(obj.UserID) ELSE r.user_id,
     type |-> IF IsSet(obj.Type) THEN Val(obj.Type) ELSE r.type,
     data |-> IF IsSet(obj.Data) THEN Val(obj.Data) ELSE r.data,
     meta |-> IF IsSet(obj.Meta) THEN Val(obj.Meta) ELSE r.meta,
     url |-> IF IsSet(obj.URL) THEN Val(obj.URL) ELSE r.url,
     created_at |-> r.created_at,
     updated_at |-> IF IsSet(obj.UpdatedAt) THEN Val(obj.UpdatedAt) ELSE r.updated_at]

HasSetClause(obj) ==
    \/ IsSet(obj.UserID) \/ IsSet(obj.Type) \/ IsSet(obj.Data)
    \/ IsSet(obj.Meta) \/ IsSet(obj.UpdatedAt) \/ IsSet(obj.URL)

\* Repo.Update: [rows, err, calls]; a statement without a SET clause is
\* refused by the query builder
RepoUpdate(tbl, pars, obj, F) ==
    IF ~IsValid(pars) THEN [rows |-> tbl, err |-> ErrInvalidInput, calls |-> << >>]
    ELSE IF ~HasSetClause(obj) THEN [rows |-> tbl, err |-> ErrNoSet, calls |-> << >>]
    ELSE IF "pg.Update" \in F \/ (IsSet(obj.Type) /\ Val(obj.Type) \notin DataTypes)
    THEN [rows |-> tbl, err |-> ErrDB, calls |-> << Call("pg.Update", ErrDB) >>]
    ELSE [rows |-> { IF UpdateMatches(r, pars) THEN ApplyEdit(r, obj) ELSE r : r \in tbl },
          err |-> NoErr, calls |-> << Call("pg.Update", NoErr) >>]

\* Repo.Delete: DELETE ... WHERE id = pars.ID.  [rows, err, calls]
RepoDelete(tbl, pars, F) ==
    IF ~IsValid(pars) THEN [rows |-> tbl, err |-> ErrInvalidInput, calls |-> << >>]
    ELSE IF "pg.Delete" \in F
    THEN [rows |-> tbl, err |-> ErrDB, calls |-> << Call("pg.Delete", ErrDB) >>]
    ELSE [rows |-> { r \in tbl : r.id # pars.ID }, err |-> NoErr,
          calls |-> << Call("pg.Delete", NoErr) >>]

\* the columns Repo.List selects and scans; Meta and URL keep Go's zero value
ListItem(r) ==
    [id |-> r.id, user_id |-> r.user_id, type |-> r.type, data |-> r.data,
     meta |-> "", url |-> EmptyURL,
     created_at |-> r.created_at, updated_at |-> r.updated_at]

\* the WHERE clause of Repo.List without its user_id condition
ListMatchesAnyOwner(r, lp) ==
    /\ (IsSet(lp.ID) => r.id = Val(lp.ID))
    /\ (IsSet(lp.IDs) => r.id \in Val(lp.IDs))
    /\ (IsSet(lp.UserIDs) => r.user_id \in Val(lp.UserIDs))
    /\ (IsSet(lp.Type) => r.type = Val(lp.Type))
    /\ (IsSet(lp.CreatedBefore) => r.created_at <= Val(lp.CreatedBefore))
    /\ (IsSet(lp.CreatedAfter) => r.created_at >= Val(lp.CreatedAfter))
    /\ (IsSet(lp.UpdatedBefore) => r.updated_at <= Val(lp.UpdatedBefore))
    /\ (IsSet(lp.UpdatedAfter) => r.updated_at >= Val(lp.UpdatedAfter))

\* the WHERE clause Repo.List builds: every given condition, joined by AND
ListMatches(r, lp) ==
    /\ (IsSet(lp.ID) => r.id = Val(lp.ID))
    /\ (IsSet(lp.IDs) => r.id \in Val(lp.IDs))
    /\ (IsSet(lp.UserID) => r.user_id = Val(lp.UserID))
    /\ (IsSet(lp.UserIDs) => r.user_id \in Val(lp.UserIDs))
    /\ (IsSet(lp.Type) => r.type = Val(lp.Type))
    /\ (IsSet(lp.CreatedBefore) => r.created_at <= Val(lp.CreatedBefore))
    /\ (IsSet(lp.CreatedAfter) => r.created_at >= Val(lp.CreatedAfter))
    /\ (IsSet(lp.UpdatedBefore) => r.updated_at <= Val(lp.UpdatedBefore))
    /\ (IsSet(lp.UpdatedAfter) => r.updated_at >= Val(lp.UpdatedAfter))

\* the rows the query of Repo.List selects
ListRows(tbl, lp) == { r \in tbl : ListMatches(r, lp) }

\* int64(len(result))
ListCount(items) == Cardinality(items)

\* Repo.List: [items, count, err, calls]; the rows come in the order the
\* database chooses, the ids are unique, so the result is the set of its items
RepoList(tbl, lp, F) ==
    IF "pg.List" \in F \/ (IsSet(lp.Type) /\ Val(lp.Type) \notin DataTypes)
    THEN [items |-> {}, count |-> 0, err |-> ErrDB, calls |-> << Call("pg.List", ErrDB) >>]
    ELSE IF \E r \in ListRows(tbl, lp) : r.user_id = DBNull
    THEN [items |-> {}, count |-> 0, err |-> ErrScan,
          calls |-> << Call("pg.List", ErrScan) >>]
    ELSE [items |-> { ListItem(r) : r \in ListRows(tbl, lp) },
          count |-> ListCount({ ListItem(r) : r \in ListRows(tbl, lp) }),
          err |-> NoErr, calls |-> << Call("pg.List", NoErr) >>]

(***************************************************************************)
(* s3/repo.go: the bucket is a function from object names to bytes         *)
(***************************************************************************)
NoData == "<nil>"

\* S3Repo.GetFile: [data, found, err, fatal, calls].  GetObject may fail;
\* reading an object that is absent fails in io.Copy, which ends in
\* log.Fatalln; a successful read returns the bytes with found = false
GetFile(objs, pars, F) ==
    IF "s3.GetFile" \in F
    THEN [data |-> NoData, found |-> FALSE, err |-> ErrS3, fatal |-> FALSE,
          calls |-> << Call("s3.GetFile", ErrS3) >>]
    ELSE IF ~HasObject(objs, GetFileKey(pars.ID))
    THEN [data |-> NoData, found |-> FALSE, err |-> NoErr, fatal |-> TRUE,
          calls |-> << Call("s3.GetFile", ErrS3) >>]
    ELSE [data |-> objs[GetFileKey(pars.ID)], found |-> FALSE, err |-> NoErr,
          fatal |-> FALSE, calls |-> << Call("s3.GetFile", NoErr) >>]

\* S3Repo.UploadFile: [objects, url, err, calls]
UploadFile(objs, n, data, F) ==
    IF "s3.UploadFile" \in F
    THEN [objects |-> objs, url |-> EmptyURL, err |-> ErrS3,
          calls |-> << Call("s3.UploadFile", ErrS3) >>]
    ELSE [objects |-> PutObject(objs, UploadFileKey(n), data),
          url |-> ObjectURL(UploadFileKey(n)), err |-> NoErr,
          calls |-> << Call("s3.UploadFile", NoErr) >>]

\* S3Repo.DeleteFile: [objects, err, calls]; removing an absent object is
\* no error
DeleteFile(objs, pars, F) ==
    IF "s3.DeleteFile" \in F
    THEN [objects |-> objs, err |-> ErrS3, calls |-> << Call("s3.DeleteFile", ErrS3) >>]
    ELSE [objects |-> RemoveObject(objs, DeleteFileKey(pars.ID)), err |-> NoErr,
          calls |-> << Call("s3.DeleteFile", NoErr) >>]

(***************************************************************************)
(* service: Service.Get/Update/Delete/Create/List.  Each operator is the   *)
(* set of outcomes of one call on the stores (tbl, objs); calls is the log *)
(* of the backend calls it made, in order.                                 *)
(***************************************************************************)
GetResult(obj, found, err, fatal, calls) ==
    [obj |-> obj, found |-> found, err |-> err, fatal |-> fatal, calls |-> calls]

\* Service.Get: outcomes [obj, found, err, fatal, calls]
ServiceGet(tbl, objs, pars, F) ==
    { IF g.err # NoErr THEN GetResult(NoObj, FALSE, g.err, FALSE, g.calls)
      ELSE IF ~g.found THEN GetResult(NoObj, FALSE, NoErr, FALSE, g.calls)
      ELSE IF g.obj.type = BinaryDataType
           THEN LET f == GetFile(objs, ParsByID(g.obj.id), F) IN
                IF f.fatal THEN GetResult(NoObj, FALSE, NoErr, TRUE, g.calls \o f.calls)
                ELSE IF f.err # NoErr
                THEN GetResult(NoObj, FALSE, f.err, FALSE, g.calls \o f.calls)
                ELSE IF ~f.found
                THEN GetResult(NoObj, FALSE, NoErr, FALSE, g.calls \o f.calls)
                ELSE GetResult([g.obj EXCEPT !.data = f.data], f.found, NoErr, FALSE,
                               g.calls \o f.calls)
      ELSE GetResult(g.obj, g.found, NoErr, FALSE, g.calls)
      : g \in RepoGet(tbl, pars, F) }

StoreResult(tbl, objs, err, calls) ==
    [rows |-> tbl, objects |-> objs, err |-> err, calls |-> calls]

\* Service.Update: outcomes [rows, objects, err, calls]
ServiceUpdate(tbl, objs, pars, obj, F) ==
    { IF g.err # NoErr THEN StoreResult(tbl, objs, g.err, g.calls)
      ELSE IF ~g.found THEN StoreResult(tbl, objs, ErrRecordNotFound, g.calls)
      ELSE IF g.obj.type = BinaryDataType /\ IsSet(obj.Data)
           THEN LET up == UploadFile(objs, ItemNumber(pars.ID), Val(obj.Data), F) IN
                IF up.err # NoErr THEN StoreResult(tbl, objs, up.err, g.calls \o up.calls)
                ELSE LET ru == RepoUpdate(tbl, pars, [obj EXCEPT !.URL = Some(up.url)], F) IN
                     StoreResult(ru.rows, up.objects, ru.err, g.calls \o up.calls \o ru.calls)
      ELSE LET ru == RepoUpdate(tbl, pars, obj, F) IN
           StoreResult(ru.rows, objs, ru.err, g.calls \o ru.calls)
      : g \in RepoGet(tbl, pars, F) }

\* Service.Delete without its not-found branch: the DELETE is issued whatever
\* the read found
ServiceDeleteUnchecked(tbl, objs, pars, F) ==
    { IF g.err # NoErr THEN StoreResult(tbl, objs, g.err, g.calls)
      ELSE LET rd == RepoDelete(tbl, pars, F) IN
           StoreResult(rd.rows, objs, rd.err, g.calls \o rd.calls)
      : g \in RepoGet(tbl, pars, F) }

\* Service.Delete with its two deletes in the other order: the row first,
\* the object after
ServiceDeleteRowFirst(tbl, objs, pars, F) ==
    { IF g.err # NoErr THEN StoreResult(tbl, objs, g.err, g.calls)
      ELSE IF ~g.found THEN StoreResult(tbl, objs, ErrRecordNotFound, g.calls)
      ELSE LET rd == RepoDelete(tbl, pars, F) IN
           IF rd.err # NoErr THEN StoreResult(tbl, objs, rd.err, g.calls \o rd.calls)
           ELSE IF g.obj.type = BinaryDataType
           THEN LET df == DeleteFile(objs, ParsByID(g.obj.id), F) IN
                StoreResult(rd.rows, df.objects, df.err, g.calls \o rd.calls \o df.calls)
           ELSE StoreResult(rd.rows, objs, NoErr, g.calls \o rd.calls)
      : g \in RepoGet(tbl, pars, F) }

\* Service.Delete: outcomes [rows, objects, err, calls]
ServiceDelete(tbl, objs, pars, F) ==
    { IF g.err # NoErr THEN StoreResult(tbl, objs, g.err, g.calls)
      ELSE IF ~g.found THEN StoreResult(tbl, objs, ErrRecordNotFound, g.calls)
      ELSE IF g.obj.type = BinaryDataType
           THEN LET df == DeleteFile(objs, ParsByID(g.obj.id), F) IN
                IF df.err # NoErr THEN StoreResult(tbl, objs, df.err, g.calls \o df.calls)
                ELSE LET rd == RepoDelete(tbl, pars, F) IN
                     StoreResult(rd.rows, df.objects, rd.err, g.calls \o df.calls \o rd.calls)
      ELSE LET rd == RepoDelete(tbl, pars, F) IN
           StoreResult(rd.rows, objs, rd.err, g.calls \o rd.calls)
      : g \in RepoGet(tbl, pars, F) }

\* an Edit that sets only the url, as Service.Create passes to Update
EditURL(url) == Edit(EmptyID, None, None, None, None, Some(url), None)

\* Repo.BeginTx
BeginTx(F) == IF "pg.BeginTx" \in F THEN ErrDB ELSE NoErr

\* a completion that commits and never rolls back
HandleTxCompletionCommitOnly(err, F) ==
    IF err # NoErr THEN << >>
    ELSE << Call("tx.Commit", IF "tx.Commit" \in F THEN ErrDB ELSE NoErr) >>

\* Repo.HandleTxCompletion(tx, &err), deferred by Service.Create: the log
\* of what it does to the transaction
HandleTxCompletion(err, F) ==
    IF err # NoErr THEN << Call("tx.Rollback", NoErr) >>
    ELSE << Call("tx.Commit", IF "tx.Commit" \in F THEN ErrDB ELSE NoErr) >>

\* Service.Create: outcomes [rows, objects, err, calls].  The statements run
\* on the pool (r.Con), not on the transaction BeginTx opened, so the
\* rollback and the commit of HandleTxCompletion cover no statement; the
\* commit's error is stored in a local that the return statement has
\* already read.
ServiceCreate(tbl, objs, obj, F, t) ==
    IF BeginTx(F) # NoErr
    THEN { StoreResult(tbl, objs, BeginTx(F), << Call("pg.BeginTx", BeginTx(F)) >>) }
    ELSE LET rc == RepoCreate(tbl, obj, F, t)
             c1 == << Call("pg.BeginTx", NoErr) >> \o rc.calls IN
         IF rc.err # NoErr
         THEN { StoreResult(rc.rows, objs, rc.err, c1 \o HandleTxCompletion(rc.err, F)) }
         ELSE IF Val(obj.Type) # BinaryDataType
         THEN { StoreResult(rc.rows, objs, NoErr, c1 \o HandleTxCompletion(NoErr, F)) }
         ELSE LET up == UploadFile(objs, ItemNumber(obj.ID), Val(obj.Data), F)
                  c2 == c1 \o up.calls IN
              IF up.err # NoErr
              THEN { StoreResult(rc.rows, objs, up.err, c2 \o HandleTxCompletion(up.err, F)) }
              ELSE { IF u.err # NoErr
                     THEN LET df == DeleteFile(u.objects, ParsByID(obj.ID), F) IN
                          StoreResult(u.rows, df.objects, u.err,
                                      c2 \o u.calls \o df.calls \o HandleTxCompletion(u.err, F))
                     ELSE StoreResult(u.rows, u.objects, NoErr,
                                      c2 \o u.calls \o HandleTxCompletion(NoErr, F))
                     : u \in ServiceUpdate(rc.rows, up.objects, ParsByID(obj.ID),
                                           EditURL(up.url), F) }

\* a List that reads the object of every binary item it returns
ServiceListWithFiles(tbl, lp, F) ==
    LET l == RepoList(tbl, lp, F) IN
    [l EXCEPT !.items = { IF it.type = BinaryDataType THEN [it EXCEPT !.data = NoData] ELSE it :
                            it \in l.items },
              !.calls = @ \o [i \in 1..Cardinality({ it \in l.items : it.type = BinaryDataType })
                                |-> Call("s3.GetFile", NoErr)]]

\* Service.List: the repository's answer, unchanged
ServiceList(tbl, lp, F) == RepoList(tbl, lp, F)

(***************************************************************************)
(* auth/service.go: the caller's identity.  A context is [md, token]:      *)
(* whether it carries metadata, and the values of its "token" key.  A      *)
(* value is [short, bearer, jwt]: shorter than 7 bytes, starting with      *)
(* "Bearer ", and what follows the prefix: NoJWT, or the token's           *)
(* [uid, secret, exp, alg].                                                *)
(***************************************************************************)
JwtSecret == "secret"

NoJWT == [uid |-> "", secret |-> "", exp |-> 0, alg |-> ""]

\* the token Auth.NewToken signs for user uid at time t, carried as Login's
\* client sends it
BearerToken(uid, secret, exp) ==
    [short |-> FALSE, bearer |-> TRUE,
     jwt |-> [uid |-> uid, secret |-> secret, exp |-> exp, alg |-> "HS256"]]

Context(values) == [md |-> TRUE, token |-> values]

\* the first value of the loop that has the prefix; slicing a value shorter
\* than the prefix panics
RECURSIVE FindBearer(_)
FindBearer(values) ==
    IF values = << >> THEN [jwt |-> NoJWT, panic |-> FALSE]
    ELSE IF Head(values).short THEN [jwt |-> NoJWT, panic |-> TRUE]
    ELSE IF Head(values).bearer THEN [jwt |-> Head(values).jwt, panic |-> FALSE]
    ELSE FindBearer(Tail(values))

\* the methods the key function accepts
SigningMethodHMAC == { "HS256", "HS384", "HS512" }

\* the Auth of app.New
ServerAuth == [JwtSecret |-> JwtSecret]

\* Auth.GetUserIDFromContext by the Auth a at time t: [uid, err, panic]
AuthGetUserIDFromContext(a, ctx, t) ==
    IF ~ctx.md THEN [uid |-> "", err |-> "missing metadata in context", panic |-> FALSE]
    ELSE IF Len(ctx.token) = 0
    THEN [uid |-> "", err |-> "missing cookies in metadata", panic |-> FALSE]
    ELSE LET b == FindBearer(ctx.token) IN
         IF b.panic THEN [uid |-> "", err |-> NoErr, panic |-> TRUE]
         ELSE IF b.jwt = NoJWT
         THEN [uid |-> "", err |-> "jwt cookie not found", panic |-> FALSE]
         ELSE IF b.jwt.alg \notin SigningMethodHMAC \/ b.jwt.secret # a.JwtSecret \/ ~(t < b.jwt.exp)
         THEN [uid |-> "", err |-> "invalid jwt token", panic |-> FALSE]
         ELSE [uid |-> b.jwt.uid, err |-> NoErr, panic |-> FALSE]

\* GetUserIDFromContext of the server's Auth
GetUserIDFromContext(ctx, t) == AuthGetUserIDFromContext(ServerAuth, ctx, t)

(***************************************************************************)
(* handler/grpc and usecase: what each RPC passes to the service           *)
(***************************************************************************)
\* pb.DataItem as GetData and ListData build it
DataItem(obj) ==
    [id |-> obj.id, type |-> obj.type, data |-> obj.data, meta |-> obj.meta,
     created_at |-> obj.created_at, updated_at |-> obj.updated_at]

\* St.GetData: the filter, with the caller's id
GetDataPars(userID, req) == GetPars(req.id, userID, req.type, "", req.url)

\* St.ListData: the filter, with the caller's id
NoListPars ==
    [ID |-> None, IDs |-> None, UserID |-> None, UserIDs |-> None, Type |-> None,
     CreatedBefore |-> None, CreatedAfter |-> None,
     UpdatedBefore |-> None, UpdatedAfter |-> None]

ListDataPars(userID) == [NoListPars EXCEPT !.UserID = Some(userID)]

\* St.CreateData: the record, with the caller's id; a nil data slice is NULL
CreateDataEdit(userID, req) ==
    Edit(req.id, Some(userID), Some(req.type),
         IF req.data = NoData THEN None ELSE Some(req.data),
         Some(req.meta), None, None)

\* St.UpdateData: the partial, with the caller's id and the fields of the
\* request that are not empty
UpdateDataEdit(userID, req) ==
    Edit(req.id, Some(userID),
         IF req.type # "" THEN Some(req.type) ELSE None,
         IF req.data # NoData THEN Some(req.data) ELSE None,
         IF req.meta # "" THEN Some(req.meta) ELSE None,
         None, None)

\* Usecase.EditData: the filter Service.Update gets
EditDataPars(obj) == ParsByID(obj.ID)

\* St.DeleteData: the filter, with the caller's id
DeleteDataPars(userID, req) == GetPars(req.id, userID, "", "", EmptyURL)

(***************************************************************************)
(* Inputs of the calls.                                                    *)
(***************************************************************************)
\* the types the calls create and set
CreateTypes == { TextDataType, BinaryDataType }

OptMetas == { None } \cup { Some(m) : m \in Metas }

\* records handed to Service.Create
CreateObjs ==
    { Edit(id, Some(u), Some(ty), Some(d), m, None, None) :
        id \in ItemIDs, u \in Users, ty \in CreateTypes, d \in Payloads, m \in OptMetas }

\* filters handed to Service.Get, Service.Update and Service.Delete
Filters ==
    { ParsByID(id) : id \in ItemIDs }
      \cup { GetPars(id, "1", "", "", EmptyURL) : id \in ItemIDs \cup {EmptyID} }
      \cup { GetPars(EmptyID, "", BinaryDataType, "", EmptyURL),
             GetPars(EmptyID, "", "", "", EmptyURL) }

NoEdit == Edit(EmptyID, None, None, None, None, None, None)

\* partials handed to Service.Update: no field, or one field
Edits ==
    { NoEdit }
      \cup { [NoEdit EXCEPT !.Data = Some(d)] : d \in Payloads }
      \cup { [NoEdit EXCEPT !.Meta = Some(m)] : m \in Metas }
      \cup { [NoEdit EXCEPT !.Type = Some(ty)] : ty \in CreateTypes }
      \cup { [NoEdit EXCEPT !.UserID = Some(u)] : u \in Users }

\* filters handed to Service.List
ListFilters ==
    { NoListPars, [NoListPars EXCEPT !.UserIDs = Some(Users)] }
      \cup { ListDataPars(u) : u \in Users }
      \cup { [NoListPars EXCEPT !.Type = Some(ty)] : ty \in CreateTypes }
      \cup { [NoListPars EXCEPT !.UserID = Some(u), !.Type = Some(ty)] :
               u \in Users, ty \in CreateTypes }
      \cup { [NoListPars EXCEPT !.UserID = Some(u), !.ID = Some(id)] :
               u \in Users, id \in ItemIDs }
      \cup { [NoListPars EXCEPT !.UserID = Some(u), !.CreatedAfter = Some(1)] : u \in Users }

\* the backend calls that may fail
FaultPoints ==
    { "pg.BeginTx", "pg.Create", "pg.Get", "pg.Update", "pg.Delete", "pg.List",
      "s3.GetFile", "s3.UploadFile", "s3.DeleteFile", "tx.Commit" }

\* backend calls that fail during one operation
MaxFaults == 2

FaultSets == { F \in SUBSET FaultPoints : Cardinality(F) <= MaxFaults }

NoFaults == { {} }

\* the fault sets that name only calls the operation can make
CreateFaults ==
    { F \in FaultSets : F \subseteq { "pg.BeginTx", "pg.Create", "pg.Get", "pg.Update",
                                      "s3.UploadFile", "s3.DeleteFile", "tx.Commit" } }

GetFaults == { F \in FaultSets : F \subseteq { "pg.Get", "s3.GetFile" } }

UpdateFaults == { F \in FaultSets : F \subseteq { "pg.Get", "pg.Update", "s3.UploadFile" } }

DeleteFaults == { F \in FaultSets : F \subseteq { "pg.Get", "pg.Delete", "s3.DeleteFile" } }

ListFaults == { F \in FaultSets : F \subseteq { "pg.List" } }

\* the inputs of the runs with failing backends
FaultObjs ==
    { Edit(id, Some("1"), Some(ty), Some("d1"), m, None, None) :
        id \in ItemIDs, ty \in CreateTypes, m \in OptMetas }

\* a filter with nothing but a url, which no WHERE clause reads
URLFilter == GetPars(EmptyID, "", "", "", ObjectURL(<< "1" >>))

FaultFilters ==
    { ParsByID(id) : id \in ItemIDs }
      \cup { GetPars(EmptyID, "", "", "", EmptyURL), URLFilter }

FaultEdits == { [NoEdit EXCEPT !.Data = Some("d2")], [NoEdit EXCEPT !.Meta = Some("m")] }

FaultListFilters == { NoListPars }

\* hours a token is valid (one tick of the clock is one hour)
TokenTTL == 24

NotBearer == [short |-> FALSE, bearer |-> FALSE, jwt |-> NoJWT]
ShortValue == [short |-> TRUE, bearer |-> FALSE, jwt |-> NoJWT]

\* the context of a call by user u, logged in at time 0
UserContext(u) == Context(<< BearerToken(u, JwtSecret, TokenTTL) >>)

UserContexts == { UserContext(u) : u \in Users }

\* contexts without a valid credential
BadContexts ==
    { [md |-> FALSE, token |-> << >>],
      Context(<< >>),
      Context(<< NotBearer >>),
      Context(<< ShortValue >>),
      Context(<< BearerToken("1", "forged", TokenTTL) >>),
      Context(<< BearerToken("1", JwtSecret, 0) >>) }

\* pb.DataItem of CreateDataRequest
CreateReqs ==
    { [id |-> id, type |-> ty, data |-> "d1", meta |-> m] :
        id \in ItemIDs, ty \in CreateTypes, m \in { "", "m" } }

\* pb.DataItem of UpdateDataRequest
UpdateReqs ==
    { [id |-> id, type |-> ty, data |-> d, meta |-> m] :
        id \in ItemIDs, ty \in { "", BinaryDataType }, d \in { NoData, "d2" },
        m \in { "", "m2" } }

\* pb.GetDataRequest
GetReqs ==
    { [id |-> id, type |-> ty, url |-> url] :
        id \in ItemIDs \cup {EmptyID}, ty \in { "", TextDataType },
        url \in { EmptyURL, ObjectURL(<< "1" >>) } }

\* pb.DeleteDataRequest
DeleteReqs == { [id |-> id] : id \in ItemIDs \cup {EmptyID} }

NoReq == [id |-> EmptyID]

\* the calls of the RPC runs: every request with a user's credential, one
\* request with each context that has none
WithContexts(Reqs) ==
    (UserContexts \X Reqs) \cup (BadContexts \X { CHOOSE r \in Reqs : TRUE })

(***************************************************************************)
(* domain/users and domain/auth: the users table (its rows and the         *)
(* sequence behind id SERIAL), bcrypt, the Auth object, and the usecases   *)
(* Register and Login.                                                     *)
(***************************************************************************)
ErrUserNotFound == "user_not_found"
ErrUsernameAlreadyExists == "username_already_exists"
ErrInvalidPassword == "invalid_password"
ErrTooLong == "pg value too long for type character varying"

\* username VARCHAR(255)
UsernameMax == 255

\* bcrypt.GenerateFromPassword under one salt: the hash carries the salt and
\* the digest of the password under it
GenerateFromPassword(password, salt) == [salt |-> salt, digest |-> <<salt, password>>]

\* bcrypt.CompareHashAndPassword: the digest of plain under the hash's salt
CompareHashAndPassword(hash, plain) == hash.digest = <<hash.salt, plain>>

\* Service.HashPassword: one hash per salt bcrypt may draw
HashPassword(password, Ss) == { GenerateFromPassword(password, s) : s \in Ss }

\* Service.IsValidPassword
IsValidPassword(password, plainPassword) == CompareHashAndPassword(password, plainPassword)

NoHash == [salt |-> "", digest |-> << >>]

\* model.User, and the nil user
User(r) == [UserID |-> r.id, Username |-> r.username, PasswordHash |-> r.password_hash]

NoUser == [UserID |-> "", Username |-> "", PasswordHash |-> NoHash]

\* users model.GetPars and its IsValid
UserGetPars(userID, username) == [UserID |-> userID, Username |-> username]

UserIsValid(pars) == pars.UserID # "" \/ pars.Username # ""

\* id SERIAL as it is scanned into User.UserID
RECURSIVE FormatInt(_)
FormatInt(n) ==
    LET d == <<"0", "1", "2", "3", "4", "5", "6", "7", "8", "9">> IN
    IF n < 10 THEN d[n + 1] ELSE FormatInt(n \div 10) \o d[(n % 10) + 1]

EmptyUsers == [rows |-> {}, id_seq |-> 0]

\* users Repo.Get: WHERE id and username as set, LIMIT 1: [user, found, err]
UsersRepoGet(tbl, pars) ==
    IF ~UserIsValid(pars) THEN { [user |-> NoUser, found |-> FALSE, err |-> ErrInvalidInput] }
    ELSE LET m == { r \in tbl.rows :
                      /\ (pars.UserID # "" => r.id = pars.UserID)
                      /\ (pars.Username # "" => r.username = pars.Username) } IN
         IF m = {} THEN { [user |-> NoUser, found |-> FALSE, err |-> NoErr] }
         ELSE { [user |-> User(r), found |-> TRUE, err |-> NoErr] : r \in m }

\* users Repo.Exists: [exist, err]
UsersRepoExists(tbl, pars) ==
    IF ~UserIsValid(pars) THEN [exist |-> FALSE, err |-> ErrInvalidInput]
    ELSE [exist |-> \E r \in tbl.rows : r.username = pars.Username, err |-> NoErr]

\* users Repo.Create at time t: [users, err]; nextval is consumed by a
\* refused INSERT too
UsersRepoCreate(tbl, username, passwordHash, t) ==
    LET id == tbl.id_seq + 1
        used == [tbl EXCEPT !.id_seq = id] IN
    IF Len(username) > UsernameMax THEN [users |-> used, err |-> ErrTooLong]
    ELSE IF \E r \in tbl.rows : r.username = username THEN [users |-> used, err |-> ErrUnique]
    ELSE [users |-> [used EXCEPT !.rows = @ \cup { [id |-> FormatInt(id),
                                                    username |-> username,
                                                    password_hash |-> passwordHash,
                                                    created_at |-> t,
                                                    updated_at |-> t] }],
          err |-> NoErr]

\* a token that carries the username in place of the id
NewTokenByName(a, u, t) ==
    [uid |-> u.Username, secret |-> a.JwtSecret, exp |-> t + TokenTTL, alg |-> "HS256"]

\* Auth.NewToken by the Auth a for the user u at time t
NewToken(a, u, t) ==
    [uid |-> u.UserID, secret |-> a.JwtSecret, exp |-> t + TokenTTL, alg |-> "HS256"]

\* the metadata value a client sends for a token
Bearer(jwt) == [short |-> FALSE, bearer |-> TRUE, jwt |-> jwt]

\* Usecase.Register at time t, bcrypt drawing its salt from Ss: [users, err]
UsecaseRegister(tbl, username, password, Ss, t) ==
    IF username = "" \/ password = "" THEN { [users |-> tbl, err |-> ErrInvalidInput] }
    ELSE LET e == UsersRepoExists(tbl, UserGetPars("", username)) IN
         IF e.err # NoErr THEN { [users |-> tbl, err |-> e.err] }
         ELSE IF e.exist THEN { [users |-> tbl, err |-> ErrUsernameAlreadyExists] }
         ELSE UNION {
                LET c == UsersRepoCreate(tbl, username, h, t) IN
                IF c.err # NoErr THEN { [users |-> c.users, err |-> c.err] }
                ELSE { [users |-> c.users,
                        err |-> IF g.err # NoErr THEN g.err
                                ELSE IF ~g.found THEN ErrUserNotFound
                                ELSE NoErr] :
                          g \in UsersRepoGet(c.users, UserGetPars("", username)) } :
                h \in HashPassword(password, Ss) }

\* a Login that does not compare the password
UsecaseLoginAnyPassword(tbl, a, username, password, t) ==
    IF username = "" \/ password = "" THEN { [token |-> NoJWT, err |-> ErrInvalidInput] }
    ELSE { IF g.err # NoErr THEN [token |-> NoJWT, err |-> g.err]
           ELSE IF ~g.found THEN [token |-> NoJWT, err |-> ErrUserNotFound]
           ELSE [token |-> NewToken(a, g.user, t), err |-> NoErr] :
             g \in UsersRepoGet(tbl, UserGetPars("", username)) }

\* Usecase.Login by the Auth a at time t: [token, err], NoJWT for no token
UsecaseLogin(tbl, a, username, password, t) ==
    IF username = "" \/ password = "" THEN { [token |-> NoJWT, err |-> ErrInvalidInput] }
    ELSE { IF g.err # NoErr THEN [token |-> NoJWT, err |-> g.err]
           ELSE IF ~g.found THEN [token |-> NoJWT, err |-> ErrUserNotFound]
           ELSE IF ~IsValidPassword(g.user.PasswordHash, password)
           THEN [token |-> NoJWT, err |-> ErrInvalidPassword]
           ELSE [token |-> NewToken(a, g.user, t), err |-> NoErr] :
             g \in UsersRepoGet(tbl, UserGetPars("", username)) }

\* the accounts of Users, registered before the first call
RegisteredUsers ==
    [rows |-> { [id |-> FormatInt(n), username |-> "user" \o FormatInt(n),
                 password_hash |-> GenerateFromPassword("pw" \o FormatInt(n), "s1"),
                 created_at |-> 0, updated_at |-> 0] : n \in 1..2 },
     id_seq |-> 2]

\* requests the server handles at the same time
NProcs == 2

Procs == 1..NProcs

\* no call in progress
Idle == [pc |-> "idle"]

NoProcs == [p \in Procs |-> Idle]

(***************************************************************************)
(* The state machine.  rows is the data_items table, objects the bucket,   *)
(* creator the user each persisted id was inserted for, users the users    *)
(* table, auth the server's Auth, procs the calls in progress when calls    *)
(* overlap (each with its position and its locals), now the clock          *)
(* (CURRENT_TIMESTAMP), crashed whether the process has exited, last the   *)
(* latest call with its arguments, its answer and its backend calls.       *)
(***************************************************************************)
Init ==
    /\ rows = {}
    /\ objects = << >>
    /\ creator = << >>
    /\ users = RegisteredUsers
    /\ auth = ServerAuth
    /\ procs = NoProcs
    /\ now = 0
    /\ crashed = FALSE
    /\ last = [op |-> "Init"]

Running == ~crashed /\ now < MaxOps

\* the creators of the rows of tbl, who being the user of the call
Creators(tbl, who) ==
    [id \in { r.id : r \in tbl } |-> IF id \in DOMAIN creator THEN creator[id] ELSE who]

\* Service.Create(ctx, obj)
Create(Objs, FS) ==
    /\ Running
    /\ \E obj \in Objs, F \in FS :
         \E o \in ServiceCreate(rows, objects, obj, F, now) :
            /\ rows' = o.rows
            /\ objects' = o.objects
            /\ creator' = Creators(o.rows, ColumnOf(obj.UserID))
            /\ last' = [op |-> "Create", obj |-> obj, err |-> o.err, calls |-> o.calls]
    /\ now' = now + 1
    /\ UNCHANGED <<users, auth, procs>>
    /\ UNCHANGED crashed

\* Service.Get(ctx, pars)
Get(Ps, FS) ==
    /\ Running
    /\ \E pars \in Ps, F \in FS :
         \E o \in ServiceGet(rows, objects, pars, F) :
            /\ crashed' = o.fatal
            /\ last' = [op |-> "Get", pars |-> pars, obj |-> o.obj, found |-> o.found,
                        err |-> o.err, calls |-> o.calls]
    /\ now' = now + 1
    /\ UNCHANGED <<users, auth, procs>>
    /\ UNCHANGED <<rows, objects, creator>>

\* Service.Update(ctx, pars, obj)
Update(Ps, Es, FS) ==
    /\ Running
    /\ \E pars \in Ps, obj \in Es, F \in FS :
         \E o \in ServiceUpdate(rows, objects, pars, obj, F) :
            /\ rows' = o.rows
            /\ objects' = o.objects
            /\ last' = [op |-> "Update", pars |-> pars, obj |-> obj, err |-> o.err,
                        calls |-> o.calls]
    /\ now' = now + 1
    /\ UNCHANGED <<users, auth, procs>>
    /\ UNCHANGED <<creator, crashed>>

\* Service.Delete(ctx, pars)
Delete(Ps, FS) ==
    /\ Running
    /\ \E pars \in Ps, F \in FS :
         \E o \in ServiceDelete(rows, objects, pars, F) :
            /\ rows' = o.rows
            /\ objects' = o.objects
            /\ creator' = Creators(o.rows, "")
            /\ last' = [op |-> "Delete", pars |-> pars, err |-> o.err, calls |-> o.calls]
    /\ now' = now + 1
    /\ UNCHANGED <<users, auth, procs>>
    /\ UNCHANGED crashed

\* Service.List(ctx, pars)
List(LPs, FS) ==
    /\ Running
    /\ \E lp \in LPs, F \in FS :
         LET o == ServiceList(rows, lp, F) IN
            last' = [op |-> "List", pars |-> lp, items |-> o.items, count |-> o.count,
                     err |-> o.err, calls |-> o.calls]
    /\ now' = now + 1
    /\ UNCHANGED <<users, auth, procs>>
    /\ UNCHANGED <<rows, objects, creator, crashed>>

(***************************************************************************)
(* The RPCs.  No interceptor recovers a panic, so a panic ends the process.*)
(***************************************************************************)
ErrPanic == "panic"

\* an RPC that ends in GetUserIDFromContext, a being its answer
Refused(op, ctx, req, a) ==
    /\ crashed' = a.panic
    /\ last' = [op |-> op, ctx |-> ctx, req |-> req,
                err |-> IF a.panic THEN ErrPanic ELSE a.err, calls |-> << >>]
    /\ UNCHANGED <<rows, objects, creator>>

\* St.CreateData(ctx, req)
CreateData(Cs) ==
    /\ Running
    /\ \E c \in Cs :
         LET ctx == c[1]
             req == c[2]
             a == GetUserIDFromContext(ctx, now) IN
         IF a.panic \/ a.err # NoErr THEN Refused("CreateData", ctx, req, a)
         ELSE \E o \in ServiceCreate(rows, objects, CreateDataEdit(a.uid, req), {}, now) :
                /\ rows' = o.rows
                /\ objects' = o.objects
                /\ creator' = Creators(o.rows, a.uid)
                /\ last' = [op |-> "CreateData", ctx |-> ctx, req |-> req, err |-> o.err,
                            calls |-> o.calls]
                /\ UNCHANGED crashed
    /\ now' = now + 1
    /\ UNCHANGED <<users, auth, procs>>

\* St.GetData(ctx, req): resp is the item list of the response
GetData(Cs) ==
    /\ Running
    /\ \E c \in Cs :
         LET ctx == c[1]
             req == c[2]
             a == GetUserIDFromContext(ctx, now) IN
         IF a.panic \/ a.err # NoErr THEN Refused("GetData", ctx, req, a)
         ELSE \E o \in ServiceGet(rows, objects, GetDataPars(a.uid, req), {}) :
                /\ crashed' = o.fatal
                /\ last' = [op |-> "GetData", ctx |-> ctx, req |-> req, err |-> o.err,
                            calls |-> o.calls,
                            resp |-> IF o.err = NoErr /\ o.found
                                     THEN << DataItem(o.obj) >> ELSE << >>]
                /\ UNCHANGED <<rows, objects, creator>>
    /\ now' = now + 1
    /\ UNCHANGED <<users, auth, procs>>

\* St.ListData(ctx, _): resp is the item list of the response
ListData(Cs) ==
    /\ Running
    /\ \E c \in Cs :
         LET ctx == c[1]
             req == c[2]
             a == GetUserIDFromContext(ctx, now) IN
         IF a.panic \/ a.err # NoErr THEN Refused("ListData", ctx, req, a)
         ELSE LET o == ServiceList(rows, ListDataPars(a.uid), {}) IN
                /\ last' = [op |-> "ListData", ctx |-> ctx, req |-> req, err |-> o.err,
                            calls |-> o.calls,
                            resp |-> { DataItem(it) : it \in o.items }]
                /\ UNCHANGED <<rows, objects, creator, crashed>>
    /\ now' = now + 1
    /\ UNCHANGED <<users, auth, procs>>

\* St.UpdateData(ctx, req), through Usecase.EditData
UpdateData(Cs) ==
    /\ Running
    /\ \E c \in Cs :
         LET ctx == c[1]
             req == c[2]
             a == GetUserIDFromContext(ctx, now) IN
         IF a.panic \/ a.err # NoErr THEN Refused("UpdateData", ctx, req, a)
         ELSE \E o \in ServiceUpdate(rows, objects, EditDataPars(UpdateDataEdit(a.uid, req)),
                                     UpdateDataEdit(a.uid, req), {}) :
                /\ rows' = o.rows
                /\ objects' = o.objects
                /\ last' = [op |-> "UpdateData", ctx |-> ctx, req |-> req, err |-> o.err,
                            calls |-> o.calls]
                /\ UNCHANGED <<creator, crashed>>
    /\ now' = now + 1
    /\ UNCHANGED <<users, auth, procs>>

\* St.DeleteData(ctx, req)
DeleteData(Cs) ==
    /\ Running
    /\ \E c \in Cs :
         LET ctx == c[1]
             req == c[2]
             a == GetUserIDFromContext(ctx, now) IN
         IF a.panic \/ a.err # NoErr THEN Refused("DeleteData", ctx, req, a)
         ELSE \E o \in ServiceDelete(rows, objects, DeleteDataPars(a.uid, req), {}) :
                /\ rows' = o.rows
                /\ objects' = o.objects
                /\ creator' = Creators(o.rows, "")
                /\ last' = [op |-> "DeleteData", ctx |-> ctx, req |-> req, err |-> o.err,
                            calls |-> o.calls]
                /\ UNCHANGED crashed
    /\ now' = now + 1
    /\ UNCHANGED <<users, auth, procs>>

(***************************************************************************)
(* Specifications: the engine with working backends, the engine with       *)
(* failing backends, and the RPC surface.                                  *)
(***************************************************************************)
Next ==
    \/ Create(CreateObjs, NoFaults)
    \/ Get(Filters, NoFaults)
    \/ Update(Filters, Edits, NoFaults)
    \/ Delete(Filters, NoFaults)
    \/ List(ListFilters, NoFaults)

Spec == Init /\ [][Next]_vars

NextFaults ==
    \/ Create(FaultObjs, CreateFaults)
    \/ Get(FaultFilters, GetFaults)
    \/ Update(FaultFilters, FaultEdits, UpdateFaults)
    \/ Delete(FaultFilters, DeleteFaults)
    \/ List(FaultListFilters, ListFaults)

SpecFaults == Init /\ [][NextFaults]_vars

NextRPC ==
    \/ CreateData(WithContexts(CreateReqs))
    \/ GetData(WithContexts(GetReqs))
    \/ ListData(WithContexts({ NoReq }))
    \/ UpdateData(WithContexts(UpdateReqs))
    \/ DeleteData(WithContexts(DeleteReqs))

SpecRPC == Init /\ [][NextRPC]_vars

(***************************************************************************)
(* Properties.                                                             *)
(***************************************************************************)
\* the user a context authenticates at time t; "" when it authenticates none
Caller(ctx, t) ==
    LET a == GetUserIDFromContext(ctx, t) IN
    IF a.panic \/ a.err # NoErr THEN "" ELSE a.uid

\* whether the call named name is in the log, with the given success
Made(calls, name, ok) == \E i \in 1..Len(calls) : calls[i].call = name /\ calls[i].ok = ok

Attempted(calls, name) == \E i \in 1..Len(calls) : calls[i].call = name

\* the name under which the bucket holds the object of item id
ObjectKey(id) == GetFileKey(id)

\* C1: an UpdateData or DeleteData call that a user makes against the id of
\* a row owned by another user fails and leaves that row, every field of it,
\* and the bucket as they were.
C1_CrossUserWrite ==
    [][ \A r \in rows :
          ( /\ last'.op \in { "UpdateData", "DeleteData" }
            /\ Caller(last'.ctx, now) # ""
            /\ last'.req.id = r.id
            /\ r.user_id # Caller(last'.ctx, now) )
          => ( last'.err # NoErr /\ r \in rows' /\ objects' = objects ) ]_vars

\* C2: every item a GetData call returns was created by the caller; a call
\* by another user gets the empty list.
C2_CrossUserRead ==
    (last.op = "GetData" /\ Caller(last.ctx, now - 1) # "")
      => \A i \in 1..Len(last.resp) :
            creator[last.resp[i].id] = Caller(last.ctx, now - 1)

\* C3: List with an owner filter U returns only rows owned by U; with the
\* owner filter alone, as ListData issues it, it returns every row owned by
\* U; the count is the number of items returned.
C3_ListOwner ==
    (last.op = "List" /\ last.err = NoErr /\ IsSet(last.pars.UserID))
      => LET U == Val(last.pars.UserID) IN
         /\ \A it \in last.items :
               \E r \in rows : /\ r.id = it.id /\ r.user_id = U /\ it.user_id = U
                               /\ r.type = it.type /\ r.data = it.data
         /\ (last.pars = ListDataPars(U)
               => { it.id : it \in last.items } = { r.id : r \in { x \in rows : x.user_id = U } })
         /\ last.count = Cardinality(last.items)

\* a List by owner that returns rows while another user's rows are stored
C3_Witness ==
    /\ last.op = "List"
    /\ last.err = NoErr
    /\ last.pars = ListDataPars("1")
    /\ last.count = 1
    /\ \E r \in rows : r.user_id = "2"

\* C4: after a successful Create of a binary record, Get by its id finds
\* the record with the bytes given to Create, and the bucket holds those
\* bytes under the key of the id.
C4_BinaryRoundTrip ==
    (last.op = "Create" /\ last.err = NoErr /\ Val(last.obj.Type) = BinaryDataType)
      => /\ \A g \in ServiceGet(rows, objects, ParsByID(last.obj.ID), {}) :
               /\ g.found
               /\ g.err = NoErr
               /\ g.obj.id = last.obj.ID
               /\ g.obj.data = Val(last.obj.Data)
         /\ HasObject(objects, ObjectKey(last.obj.ID))
         /\ objects[ObjectKey(last.obj.ID)] = Val(last.obj.Data)

\* C5: after a successful Create of a record of another type, Get by its id
\* finds the record with the bytes given to Create, and the bucket holds no
\* object for the id.
C5_PlainRoundTrip ==
    (last.op = "Create" /\ last.err = NoErr /\ Val(last.obj.Type) # BinaryDataType)
      => /\ \A g \in ServiceGet(rows, objects, ParsByID(last.obj.ID), {}) :
               /\ g.found
               /\ g.err = NoErr
               /\ g.obj.id = last.obj.ID
               /\ g.obj.data = Val(last.obj.Data)
         /\ ~HasObject(objects, ObjectKey(last.obj.ID))

C7_UpdateBinary ==
    (/\ last.op = "Update"
     /\ last.err = NoErr
     /\ last.pars.ID # EmptyID
     /\ IsSet(last.obj.Data)
     /\ Attempted(last.calls, "s3.UploadFile"))
      => /\ HasObject(objects, ObjectKey(last.pars.ID))
         /\ objects[ObjectKey(last.pars.ID)] = Val(last.obj.Data)
         /\ \A g \in ServiceGet(rows, objects, ParsByID(last.pars.ID), {}) :
               g.found /\ g.err = NoErr /\ g.obj.data = Val(last.obj.Data)

\* C8: in every state, a binary row has a url and an object under the key
\* of its id, and the bucket holds no object for the id of any other row.
C8_BinaryInvariant ==
    \A r \in rows :
       IF r.type = BinaryDataType
       THEN r.url # EmptyURL /\ HasObject(objects, ObjectKey(r.id))
       ELSE ~HasObject(objects, ObjectKey(r.id))

\* C9: a Create that returns an error adds no row, and a Create adds a row
\* only when its transaction committed.
C9_CreateAtomic ==
    [][ last'.op = "Create"
          => /\ (last'.err # NoErr => rows' = rows)
             /\ (rows' # rows => Made(last'.calls, "tx.Commit", TRUE)) ]_vars

C11_GetNotFound ==
    (/\ last.op = "Get"
     /\ last.pars = ParsByID(last.pars.ID)
     /\ last.pars.ID # EmptyID
     /\ Made(last.calls, "pg.Get", TRUE)
     /\ \A r \in rows :
          r.id = last.pars.ID => (r.type = BinaryDataType /\ ~HasObject(objects, ObjectKey(r.id))))
      => (~last.found /\ last.err = NoErr /\ ~crashed)

\* C12: an Update or a Delete whose valid filter matches no row returns the
\* error "record not found", leaves the table and the bucket as they were,
\* and attempts no upload and no object delete.
C12_NotFoundIsError ==
    [][ (/\ last'.op \in { "Update", "Delete" }
         /\ IsValid(last'.pars)
         /\ \A r \in rows : ~GetMatches(r, last'.pars))
          => (/\ last'.err = ErrRecordNotFound
              /\ rows' = rows
              /\ objects' = objects
              /\ ~Attempted(last'.calls, "s3.UploadFile")
              /\ ~Attempted(last'.calls, "s3.DeleteFile")) ]_vars

\* a Delete and an Update that matched none of the stored rows
C12_Witness ==
    /\ last.op \in { "Update", "Delete" }
    /\ last.err = ErrRecordNotFound
    /\ rows # {}
    /\ objects # << >>
    /\ \A r \in rows : ~GetMatches(r, last.pars)

\* whether the log holds a call named a before a call named b
Before(calls, a, b) ==
    \E i \in 1..Len(calls), j \in 1..Len(calls) :
       i < j /\ calls[i].call = a /\ calls[j].call = b

\* C13: a Delete of a binary item deletes the object before the row, and
\* when the object delete fails it returns an error, issues no DELETE and
\* leaves the table as it was.
C13_DeleteOrder ==
    [][ (/\ last'.op = "Delete"
         /\ \E r \in rows : r.type = BinaryDataType /\ GetMatches(r, last'.pars)
         /\ \A r \in rows : GetMatches(r, last'.pars) => r.type = BinaryDataType)
          => (/\ (Attempted(last'.calls, "pg.Delete")
                    => Before(last'.calls, "s3.DeleteFile", "pg.Delete"))
              /\ (Made(last'.calls, "s3.DeleteFile", FALSE)
                    => (/\ last'.err # NoErr
                        /\ rows' = rows
                        /\ ~Attempted(last'.calls, "pg.Delete")))) ]_vars

\* a Delete of a binary item whose object delete failed
C13_Witness ==
    /\ last.op = "Delete"
    /\ Made(last.calls, "s3.DeleteFile", FALSE)
    /\ last.err = ErrS3
    /\ \E r \in rows : r.id = last.pars.ID /\ r.type = BinaryDataType

\* C14: a Get, an Update or a Delete whose filter has no id, no owner and
\* no type fails with InvalidInput and makes no call to the table or the
\* bucket.
C14_EmptyFilter ==
    [][ (/\ last'.op \in { "Get", "Update", "Delete" }
         /\ last'.pars.ID = EmptyID
         /\ last'.pars.UserID = ""
         /\ last'.pars.Type = "")
          => (/\ last'.err = ErrInvalidInput
              /\ last'.calls = << >>
              /\ rows' = rows
              /\ objects' = objects) ]_vars

\* C15: an Update changes only the fields its partial sets, and only in the
\* rows its filter matches: in a matching row every field the partial
\* leaves unset keeps its value (the url follows the payload of a binary
\* row), and every other row stays as it was.
C15_UpdateFrame ==
    [][ last'.op = "Update"
          => \A r \in rows :
                IF GetMatches(r, last'.pars)
                THEN \E q \in rows' :
                        /\ q.id = r.id
                        /\ q.created_at = r.created_at
                        /\ (~IsSet(last'.obj.UserID) => q.user_id = r.user_id)
                        /\ (~IsSet(last'.obj.Type) => q.type = r.type)
                        /\ (~IsSet(last'.obj.Data) => q.data = r.data)
                        /\ (~IsSet(last'.obj.Meta) => q.meta = r.meta)
                        /\ (~IsSet(last'.obj.Data) /\ ~IsSet(last'.obj.URL) => q.url = r.url)
                ELSE r \in rows' ]_vars

\* C16: a successful Update that sets a field, without a timestamp from the
\* caller, makes updated_at of the rows it matches strictly later and keeps
\* their created_at.
C16_UpdatedAtRefreshed ==
    [][ (/\ last'.op = "Update"
         /\ last'.err = NoErr
         /\ HasSetClause(last'.obj)
         /\ ~IsSet(last'.obj.UpdatedAt))
          => \A r \in rows :
                GetMatches(r, last'.pars)
                  => \E q \in rows' :
                        /\ q.id = r.id
                        /\ q.created_at = r.created_at
                        /\ q.updated_at > r.updated_at ]_vars

\* C17: an RPC called with a credential that is absent, malformed, wrongly
\* signed or expired returns an error to its caller and reaches no store: the
\* server keeps running, no backend call is made, rows and objects stay.
C17_BadCredentialRefused ==
    [][ (/\ last'.op \in { "GetData", "ListData", "CreateData", "UpdateData", "DeleteData" }
         /\ Caller(last'.ctx, now) = "")
          => /\ last'.err # NoErr
             /\ last'.err # ErrPanic
             /\ ~crashed'
             /\ last'.calls = << >>
             /\ rows' = rows
             /\ objects' = objects ]_vars

(***************************************************************************)
(* Accounts: Register, Login and the resolution of a token, on an empty    *)
(* users table and an Auth holding any of Secrets.                         *)
(***************************************************************************)
Dbl(s) == s \o s

\* a username of 256 bytes
LongName == Dbl(Dbl(Dbl(Dbl(Dbl(Dbl(Dbl(Dbl("u"))))))))

Usernames == { "", "alice", "bob", LongName }

Passwords == { "", "pw1", "pw2" }

Salts == { "s1", "s2" }

Secrets == { JwtSecret, "other", "" }

\* how long before the call a token was signed
IssuedAgo == { 0, TokenTTL - 1, TokenTTL }

\* the user of TestAuth_GetUserIDFromContext
TestUser == [UserID |-> "999", Username |-> "Test", PasswordHash |-> NoHash]

InitUsers ==
    /\ rows = {}
    /\ objects = << >>
    /\ creator = << >>
    /\ users = EmptyUsers
    /\ auth \in { [JwtSecret |-> s] : s \in Secrets }
    /\ procs = NoProcs
    /\ now = 0
    /\ crashed = FALSE
    /\ last = [op |-> "Init"]

\* Usecase.Register(ctx, username, password)
Register(Ns, Ps, Ss) ==
    /\ Running
    /\ \E username \in Ns, password \in Ps :
         \E o \in UsecaseRegister(users, username, password, Ss, now) :
            /\ users' = o.users
            /\ last' = [op |-> "Register", username |-> username, password |-> password,
                        err |-> o.err]
    /\ now' = now + 1
    /\ UNCHANGED <<rows, objects, creator, auth, procs, crashed>>

\* Usecase.Login(ctx, username, password)
Login(Ns, Ps) ==
    /\ Running
    /\ \E username \in Ns, password \in Ps :
         \E o \in UsecaseLogin(users, auth, username, password, now) :
            last' = [op |-> "Login", username |-> username, password |-> password,
                     token |-> o.token, err |-> o.err]
    /\ now' = now + 1
    /\ UNCHANGED <<rows, objects, creator, users, auth, procs, crashed>>

\* Usecase.GetUserIDFromContext(ctx), ctx carrying "Bearer " and the token an
\* Auth holding a secret of Ks signed for a user some time of Ago before
UsecaseGetUserIDFromContext(Ks, Ago) ==
    /\ Running
    /\ \E u \in { TestUser } \cup { User(r) : r \in users.rows }, k \in Ks, d \in Ago :
         LET signer == [JwtSecret |-> k]
             ctx == Context(<< Bearer(NewToken(signer, u, now - d)) >>)
             a == AuthGetUserIDFromContext(auth, ctx, now) IN
            /\ crashed' = a.panic
            /\ last' = [op |-> "GetUserIDFromContext", user |-> u, signer |-> signer,
                        ctx |-> ctx, uid |-> a.uid, err |-> a.err]
    /\ now' = now + 1
    /\ UNCHANGED <<rows, objects, creator, users, auth, procs>>

NextUsers ==
    \/ Register(Usernames, Passwords, Salts)
    \/ Login(Usernames, Passwords)
    \/ UsecaseGetUserIDFromContext(Secrets, IssuedAgo)

SpecUsers == InitUsers /\ [][NextUsers]_vars

\* C18: GetUserIDFromContext by an Auth holding a secret, on a context whose
\* token value is "Bearer " and the token NewToken signed for a user with that
\* secret, not yet expired, returns the user's UserID and no error.
C18_TokenRoundTrip ==
    [][ (/\ last'.op = "GetUserIDFromContext"
         /\ last'.signer = auth
         /\ now < last'.ctx.token[1].jwt.exp)
          => /\ last'.uid = last'.user.UserID
             /\ last'.err = NoErr
             /\ ~crashed' ]_vars

C18_Witness ==
    /\ last.op = "GetUserIDFromContext"
    /\ last.signer = auth
    /\ auth.JwtSecret # JwtSecret
    /\ last.ctx.token[1].jwt.exp = now
    /\ last.uid = last.user.UserID
    /\ last.uid # ""
    /\ last.err = NoErr

\* C19: Login returns a token only when the account exists and the password
\* matches its stored hash, and the token then resolves to that account's id;
\* otherwise it fails with InvalidInput (an argument empty), else UserNotFound,
\* else InvalidPassword, without a token.
C19_Login ==
    [][ last'.op = "Login"
          => LET n == last'.username
                 p == last'.password
                 m == { r \in users.rows : r.username = n } IN
             /\ users' = users
             /\ IF n = "" \/ p = ""
                THEN last'.err = ErrInvalidInput /\ last'.token = NoJWT
                ELSE IF m = {}
                THEN last'.err = ErrUserNotFound /\ last'.token = NoJWT
                ELSE IF \A r \in m : ~CompareHashAndPassword(r.password_hash, p)
                THEN last'.err = ErrInvalidPassword /\ last'.token = NoJWT
                ELSE /\ last'.err = NoErr
                     /\ \E r \in m :
                          /\ CompareHashAndPassword(r.password_hash, p)
                          /\ AuthGetUserIDFromContext(auth, Context(<< Bearer(last'.token) >>), now)
                               = [uid |-> r.id, err |-> NoErr, panic |-> FALSE] ]_vars

C19_Witness ==
    /\ last.op = "Login"
    /\ last.err = NoErr
    /\ last.token # NoJWT
    /\ \E r \in users.rows : r.username = last.username /\ r.id = last.token.uid
    /\ Cardinality(users.rows) = 2

\* C20: Register fails with InvalidInput when an argument is empty and with
\* UsernameAlreadyExists when the username exists, the users table staying as
\* it was; otherwise it persists exactly one new account, holding a hash of
\* the password.
C20_Register ==
    [][ last'.op = "Register"
          => LET n == last'.username
                 p == last'.password IN
             IF n = "" \/ p = ""
             THEN last'.err = ErrInvalidInput /\ users'.rows = users.rows
             ELSE IF \E r \in users.rows : r.username = n
             THEN last'.err = ErrUsernameAlreadyExists /\ users'.rows = users.rows
             ELSE /\ last'.err = NoErr
                  /\ \E r \in users'.rows \ users.rows :
                       /\ users'.rows = users.rows \cup { r }
                       /\ r.username = n
                       /\ r.password_hash \in { GenerateFromPassword(p, s) : s \in Salts } ]_vars

\* the calls of the log that close the transaction
TxClosings(calls) ==
    { i \in 1..Len(calls) : calls[i].call \in { "tx.Commit", "tx.Rollback" } }

C22_ErrorsSurface ==
    [][ last'.op \in { "Create", "Get", "Update", "Delete" }
          => \A i \in 1..Len(last'.calls) :
                (/\ ~last'.calls[i].ok
                 /\ ~(last'.op = "Create" /\ last'.calls[i].call = "s3.DeleteFile"))
                  => last'.err # NoErr ]_vars

\* C23: a Create whose id is the id of an existing row fails with the
\* uniqueness error, uploads nothing, and leaves every row and every object
\* as it was.
C23_CreateCollision ==
    [][ (/\ last'.op = "Create"
         /\ \E r \in rows : r.id = last'.obj.ID)
          => /\ last'.err = ErrUnique
             /\ ~Attempted(last'.calls, "s3.UploadFile")
             /\ rows' = rows
             /\ objects' = objects ]_vars

C23_Witness ==
    /\ last.op = "Create"
    /\ last.err = ErrUnique
    /\ Val(last.obj.Type) = BinaryDataType
    /\ \E r \in rows :
         /\ r.id = last.obj.ID
         /\ r.type = BinaryDataType
         /\ HasObject(objects, ObjectKey(r.id))
         /\ objects[ObjectKey(r.id)] # Val(last.obj.Data)

\* C26: UploadFile, GetFile and DeleteFile name the same object for the id of
\* an item, and no other id is given that object's name.
C26_OneKeyPerItem ==
    [][ (/\ last'.op = "Create"
         /\ Made(last'.calls, "s3.UploadFile", TRUE))
          => LET id == last'.obj.ID IN
             /\ UploadFileKey(ItemNumber(id)) = GetFileKey(id)
             /\ GetFileKey(id) = DeleteFileKey(id)
             /\ \A other \in ItemIDs \ { id } :
                  /\ GetFileKey(other) # GetFileKey(id)
                  /\ DeleteFileKey(other) # GetFileKey(id) ]_vars

(***************************************************************************)
(* Operations on several items: calls by id on three ids, two of which are *)
(* no decimal numbers.  Calls interleave as wholes.                        *)
(***************************************************************************)
PairIDs == ItemIDs \cup { <<"b">> }

PairObjs ==
    { Edit(id, Some("1"), Some(ty), Some(d), Some("m"), None, None) :
        id \in PairIDs, ty \in CreateTypes, d \in Payloads }

PairFilters == { ParsByID(id) : id \in PairIDs }

PairEdits == { [NoEdit EXCEPT !.Data = Some(d)] : d \in Payloads }

NextPair ==
    \/ Create(PairObjs, NoFaults)
    \/ Get(PairFilters, NoFaults)
    \/ Update(PairFilters, PairEdits, NoFaults)
    \/ Delete(PairFilters, NoFaults)

SpecPair == Init /\ [][NextPair]_vars

\* the id a call by id is about
ItemOf(call) == IF call.op = "Create" THEN call.obj.ID ELSE call.pars.ID

C25_ListDelegates ==
    [][ last'.op = "List"
          => /\ rows' = rows
             /\ objects' = objects
             /\ \A i \in 1..Len(last'.calls) : last'.calls[i].call = "pg.List"
             /\ \A it \in last'.items :
                  \E r \in rows : r.id = it.id /\ r.type = it.type /\ r.data = it.data ]_vars

C25_Witness ==
    /\ last.op = "List"
    /\ last.err = NoErr
    /\ objects # << >>
    /\ \E it \in last.items :
         /\ it.type = BinaryDataType
         /\ HasObject(objects, ObjectKey(it.id))

\* C27: a Delete that returns success leaves no binary row whose object it
\* has removed, whatever valid filter it was given.
C27_DeleteRemovesRow ==
    [][ (last'.op \in { "Delete", "DeleteData" } /\ last'.err = NoErr)
          => \A r \in rows' :
                ~(/\ r.type = BinaryDataType
                  /\ HasObject(objects, ObjectKey(r.id))
                  /\ ~HasObject(objects', ObjectKey(r.id))) ]_vars

\* C28: an Update by id that returns an error has changed no row and no
\* object; in particular the object of a binary item holds the bytes it held
\* before.
C28_FailedUpdateNoChange ==
    [][ (last'.op = "Update" /\ last'.pars.ID # EmptyID /\ last'.err # NoErr)
          => /\ rows' = rows
             /\ objects' = objects ]_vars

(***************************************************************************)
(* Overlapping Register calls.  Each request runs Usecase.Register one     *)
(* statement of the database at a time; the statements of different        *)
(* requests interleave.                                                    *)
(***************************************************************************)
RaceNames == { "", "alice", "bob" }

RacePasswords == { "pw1" }

\* a call that has returned err
Returned(call, err) == [call EXCEPT !.pc = "done", !.err = err]

InitRegisterRace ==
    /\ rows = {}
    /\ objects = << >>
    /\ creator = << >>
    /\ users = EmptyUsers
    /\ auth = ServerAuth
    /\ procs = NoProcs
    /\ now = 0
    /\ crashed = FALSE
    /\ last = [op |-> "Init"]

\* Register is called: the check of its arguments
RegisterBegin(p, Ns, Ps) ==
    /\ procs[p] = Idle
    /\ \E username \in Ns, password \in Ps :
         LET call == [pc |-> "IsLoginTaken", op |-> "Register", username |-> username,
                      password |-> password, err |-> NoErr] IN
         procs' = [procs EXCEPT ![p] = IF username = "" \/ password = ""
                                       THEN Returned(call, ErrInvalidInput)
                                       ELSE call]
    /\ UNCHANGED <<rows, objects, creator, users, auth, now, crashed, last>>

\* usersService.IsLoginTaken
RegisterIsLoginTaken(p) ==
    /\ procs[p].pc = "IsLoginTaken"
    /\ LET e == UsersRepoExists(users, UserGetPars("", procs[p].username)) IN
       procs' = [procs EXCEPT ![p] = IF e.err # NoErr THEN Returned(@, e.err)
                                     ELSE IF e.exist THEN Returned(@, ErrUsernameAlreadyExists)
                                     ELSE [@ EXCEPT !.pc = "Create"]]
    /\ UNCHANGED <<rows, objects, creator, users, auth, now, crashed, last>>

\* usersService.HashPassword and usersService.Create
RegisterCreate(p, Ss) ==
    /\ procs[p].pc = "Create"
    /\ \E h \in HashPassword(procs[p].password, Ss) :
         LET c == UsersRepoCreate(users, procs[p].username, h, now) IN
            /\ users' = c.users
            /\ procs' = [procs EXCEPT ![p] = IF c.err # NoErr THEN Returned(@, c.err)
                                             ELSE [@ EXCEPT !.pc = "Get"]]
    /\ UNCHANGED <<rows, objects, creator, auth, now, crashed, last>>

\* usersService.Get of the created user, and the return
RegisterGet(p) ==
    /\ procs[p].pc = "Get"
    /\ \E g \in UsersRepoGet(users, UserGetPars("", procs[p].username)) :
         procs' = [procs EXCEPT ![p] = Returned(@, IF g.err # NoErr THEN g.err
                                                   ELSE IF ~g.found THEN ErrUserNotFound
                                                   ELSE NoErr)]
    /\ UNCHANGED <<rows, objects, creator, users, auth, now, crashed, last>>

NextRegisterRace ==
    \E p \in Procs :
        \/ RegisterBegin(p, RaceNames, RacePasswords)
        \/ RegisterIsLoginTaken(p)
        \/ RegisterCreate(p, Salts)
        \/ RegisterGet(p)

SpecRegisterRace == InitRegisterRace /\ [][NextRegisterRace]_vars

AllReturned == \A p \in Procs : procs[p].pc = "done"

\* C29: when overlapping Register calls with one non-empty username have all
\* returned, one account has that username, one call has succeeded and every
\* other has failed with UsernameAlreadyExists.
C29_RegisterRace ==
    AllReturned
      => \A n \in RaceNames \ { "" } :
            LET ps == { p \in Procs : procs[p].username = n } IN
            ps # {}
              => /\ Cardinality({ r \in users.rows : r.username = n }) = 1
                 /\ Cardinality({ p \in ps : procs[p].err = NoErr }) = 1
                 /\ \A p \in ps : procs[p].err \in { NoErr, ErrUsernameAlreadyExists }

(***************************************************************************)
(* Overlapping Update and Delete calls on a stored binary item.  Each      *)
(* request runs Service.Update or Service.Delete one backend call at a     *)
(* time; the calls of different requests interleave.                       *)
(***************************************************************************)
\* the stores after the Create of one binary item
RaceObjs == { Edit(id, Some("1"), Some(BinaryDataType), Some("d1"), Some("m"), None, None) :
                id \in ItemIDs }

RaceEdit == [NoEdit EXCEPT !.Data = Some("d2")]

InitItemRace ==
    /\ \E obj \in RaceObjs :
         \E o \in ServiceCreate({}, << >>, obj, {}, 0) :
            /\ o.err = NoErr
            /\ rows = o.rows
            /\ objects = o.objects
            /\ creator = [id \in { obj.ID } |-> "1"]
    /\ users = RegisteredUsers
    /\ auth = ServerAuth
    /\ procs = NoProcs
    /\ now = 1
    /\ crashed = FALSE
    /\ last = [op |-> "Init"]

\* Service.Update is called
UpdateBegin(p, Ids) ==
    /\ procs[p] = Idle
    /\ \E id \in Ids :
         procs' = [procs EXCEPT ![p] = [pc |-> "Get", op |-> "Update", pars |-> ParsByID(id),
                                        obj |-> RaceEdit, err |-> NoErr]]
    /\ UNCHANGED <<rows, objects, creator, users, auth, now, crashed, last>>

\* Service.Update: repoDB.Get
UpdateGet(p) ==
    /\ procs[p].pc = "Get" /\ procs[p].op = "Update"
    /\ \E g \in RepoGet(rows, procs[p].pars, {}) :
         procs' = [procs EXCEPT ![p] =
                     IF g.err # NoErr THEN Returned(@, g.err)
                     ELSE IF ~g.found THEN Returned(@, ErrRecordNotFound)
                     ELSE IF g.obj.type = BinaryDataType /\ IsSet(@.obj.Data)
                     THEN [@ EXCEPT !.pc = "UploadFile"]
                     ELSE [@ EXCEPT !.pc = "Update"]]
    /\ UNCHANGED <<rows, objects, creator, users, auth, now, crashed, last>>

\* Service.Update: repoS3.UploadFile
UpdateUploadFile(p) ==
    /\ procs[p].pc = "UploadFile"
    /\ LET up == UploadFile(objects, ItemNumber(procs[p].pars.ID), Val(procs[p].obj.Data), {}) IN
          /\ objects' = up.objects
          /\ procs' = [procs EXCEPT ![p] =
                         IF up.err # NoErr THEN Returned(@, up.err)
                         ELSE [@ EXCEPT !.pc = "Update", !.obj.URL = Some(up.url)]]
    /\ UNCHANGED <<rows, creator, users, auth, now, crashed, last>>

\* Service.Update: repoDB.Update, and the return
UpdateRepoUpdate(p) ==
    /\ procs[p].pc = "Update"
    /\ LET ru == RepoUpdate(rows, procs[p].pars, procs[p].obj, {}) IN
          /\ rows' = ru.rows
          /\ procs' = [procs EXCEPT ![p] = Returned(@, ru.err)]
    /\ UNCHANGED <<objects, creator, users, auth, now, crashed, last>>

\* Service.Delete is called
DeleteBegin(p, Ids) ==
    /\ procs[p] = Idle
    /\ \E id \in Ids :
         procs' = [procs EXCEPT ![p] = [pc |-> "Get", op |-> "Delete", pars |-> ParsByID(id),
                                        existingObj |-> NoObj, err |-> NoErr]]
    /\ UNCHANGED <<rows, objects, creator, users, auth, now, crashed, last>>

\* Service.Delete: repoDB.Get
DeleteGet(p) ==
    /\ procs[p].pc = "Get" /\ procs[p].op = "Delete"
    /\ \E g \in RepoGet(rows, procs[p].pars, {}) :
         procs' = [procs EXCEPT ![p] =
                     IF g.err # NoErr THEN Returned(@, g.err)
                     ELSE IF ~g.found THEN Returned(@, ErrRecordNotFound)
                     ELSE IF g.obj.type = BinaryDataType
                     THEN [@ EXCEPT !.pc = "DeleteFile", !.existingObj = g.obj]
                     ELSE [@ EXCEPT !.pc = "Delete", !.existingObj = g.obj]]
    /\ UNCHANGED <<rows, objects, creator, users, auth, now, crashed, last>>

\* Service.Delete: repoS3.DeleteFile
DeleteDeleteFile(p) ==
    /\ procs[p].pc = "DeleteFile"
    /\ LET df == DeleteFile(objects, ParsByID(procs[p].existingObj.id), {}) IN
          /\ objects' = df.objects
          /\ procs' = [procs EXCEPT ![p] = IF df.err # NoErr THEN Returned(@, df.err)
                                           ELSE [@ EXCEPT !.pc = "Delete"]]
    /\ UNCHANGED <<rows, creator, users, auth, now, crashed, last>>

\* Service.Delete: repoDB.Delete, and the return
DeleteRepoDelete(p) ==
    /\ procs[p].pc = "Delete"
    /\ LET rd == RepoDelete(rows, procs[p].pars, {}) IN
          /\ rows' = rd.rows
          /\ procs' = [procs EXCEPT ![p] = Returned(@, rd.err)]
    /\ UNCHANGED <<objects, creator, users, auth, now, crashed, last>>

NextItemRace ==
    \E p \in Procs :
        \/ UpdateBegin(p, ItemIDs)
        \/ UpdateGet(p)
        \/ UpdateUploadFile(p)
        \/ UpdateRepoUpdate(p)
        \/ DeleteBegin(p, ItemIDs)
        \/ DeleteGet(p)
        \/ DeleteDeleteFile(p)
        \/ DeleteRepoDelete(p)

SpecItemRace == InitItemRace /\ [][NextItemRace]_vars

\* C30: when an Update with new bytes and a Delete of one stored binary item
\* have both returned, the bucket holds an object for the item only if its
\* row exists.  The ids are those whose object Delete addresses (see C26).
C30_NoObjectWithoutRow ==
    AllReturned
      => \A id \in ItemIDs :
            (/\ DeleteFileKey(id) = ObjectKey(id)
             /\ \E p, q \in Procs :
                  /\ procs[p].op = "Update" /\ procs[p].pars.ID = id
                  /\ procs[q].op = "Delete" /\ procs[q].pars.ID = id)
              => (HasObject(objects, ObjectKey(id)) => \E r \in rows : r.id = id)

====
